---- MODULE Spec2Model ----
(***************************************************************************)
(* Model of the cobroker dashboard: the two mock APIs                      *)
(* (services/propertyApiSimulation.ts, services/apiSimulation.ts), each an *)
(* in-memory database held in a window global behind a simulated network   *)
(* delay, and the zustand stores built on them.                            *)
(*                                                                         *)
(* JavaScript strings that the code parses, trims or formats (ids, titles, *)
(* built-up sizes) are sequences of one-character strings; other strings   *)
(* are opaque.  A JavaScript object is a function from field names to      *)
(* values, so that a spread {...a, ...b} is a function merge.              *)
(***************************************************************************)
EXTENDS Integers, Sequences, FiniteSets, Bags, TLC

VARIABLES
    api,        \* which mock API module the behaviour exercises
    db,         \* window.__PROPERTY_API_SIMULATION / window.__API_SIMULATION
    pending,    \* API calls waiting in simulateNetworkDelay
    done,       \* the API call that settled last, with its outcome
    ncalls,     \* number of API calls made so far
    created,    \* the ids handed out by the creates that succeeded, in order
    freed,      \* the ids of the records removed by delete
    merged,     \* per fixture id, the fixture record with the updates of all
                \* settled update calls on that id merged in, in settling order
    atOnce,     \* every call so far is an update made before any call settled
    wasReset,   \* reset() has been called
    store,      \* the state of the zustand store built on the API
    ret,        \* the async store action that returned last, with its outcome
    nsteps,     \* number of store actions called so far
    page,       \* the React state of the page component on screen
    hist        \* what has been asked of the store and not yet undone

apiVars == <<done, ncalls, created, freed, merged, atOnce, wasReset>>

storeVars == <<store, ret, nsteps>>

uiVars == <<page, hist>>

vars == <<api, db, pending, done, ncalls, created, freed, merged, atOnce, wasReset,
          store, ret, nsteps, page, hist>>

\* ------------------------------------------------------------------ bounds

\* API calls made in a behaviour of Spec
MaxCalls == 3

\* store actions called in a behaviour of StoreSpec
MaxSteps == 3

\* things the user does on the property detail page in a behaviour of DetailSpec
MaxClicks == 5

\* calls of resetState.all that the call stack holds before the engine throws
\* RangeError
MaxDepth == 3

\* ------------------------------------------------------------ JS helpers

\* undefined and null where an object, an array or a string may stand.
Undefined == [undefined |-> TRUE]
\* parseInt reads unsigned numerals here, so a negative number is free to stand
\* for NaN.
NaN == 0 - 1
Null == [null |-> TRUE]

\* null where a number may stand (a bound of a range filter): the numbers of the
\* model are not negative.
NullNumber == 0 - 1

Digits == <<"0", "1", "2", "3", "4", "5", "6", "7", "8", "9">>

IsDigit(c) == \E i \in 1..10 : Digits[i] = c

DigitValue(c) == (CHOOSE i \in 1..10 : Digits[i] = c) - 1

\* String(n) for a non-negative integer n: its decimal digits.
RECURSIVE String(_)
String(n) == IF n < 10 THEN <<Digits[n + 1]>>
             ELSE String(n \div 10) \o <<Digits[(n % 10) + 1]>>

\* The characters of s up to the first one that is not a digit.
RECURSIVE LeadingDigits(_)
LeadingDigits(s) ==
    IF s = <<>> \/ ~IsDigit(Head(s)) THEN <<>>
    ELSE <<Head(s)>> \o LeadingDigits(Tail(s))

RECURSIVE DigitsValue(_, _)
DigitsValue(s, acc) ==
    IF s = <<>> THEN acc ELSE DigitsValue(Tail(s), acc * 10 + DigitValue(Head(s)))

RECURSIVE TrimStart(_)
TrimStart(s) == IF s # <<>> /\ Head(s) = " " THEN TrimStart(Tail(s)) ELSE s

RECURSIVE TrimEnd(_)
TrimEnd(s) ==
    IF s # <<>> /\ s[Len(s)] = " " THEN TrimEnd(SubSeq(s, 1, Len(s) - 1)) ELSE s

\* String.prototype.trim
trim(s) == TrimEnd(TrimStart(s))

\* parseInt(s, 10) of a string without sign: leading white space is skipped,
\* the leading digits are read, NaN when there is none.
parseInt(s) ==
    LET d == LeadingDigits(TrimStart(s))
    IN  IF d = <<>> THEN NaN ELSE DigitsValue(d, 0)

\* A template literal's text: the characters joined into one string.
RECURSIVE Text(_)
Text(s) == IF s = <<>> THEN "" ELSE Head(s) \o Text(Tail(s))

Max2(a, b) == IF a >= b THEN a ELSE b

\* {...u, ...r}: the spread the other way round
MergeOldWins(r, u) == [k \in DOMAIN r \cup DOMAIN u |-> IF k \in DOMAIN r THEN r[k] ELSE u[k]]

\* {...r, ...u}

Merge(r, u) == [k \in DOMAIN r \cup DOMAIN u |-> IF k \in DOMAIN u THEN u[k] ELSE r[k]]

\* o.k is not undefined: the object has the field.
Has(o, k) == k \in DOMAIN o

\* array.findIndex(x => x.id === id), 0 standing for -1.
findIndex(records, id) ==
    IF \E i \in 1..Len(records) : records[i]["id"] = id
    THEN CHOOSE i \in 1..Len(records) :
            /\ records[i]["id"] = id
            /\ \A j \in 1..(i - 1) : records[j]["id"] # id
    ELSE 0

\* array.splice(i): without a count, everything from i on goes
spliceToEnd(records, i) == SubSeq(records, 1, i - 1)

\* array.splice(i, 1)
splice(records, i) == SubSeq(records, 1, i - 1) \o SubSeq(records, i + 1, Len(records))

\* --------------------------------------------------------------- fixtures

Apis == {"Property", "Listing"}

PropertyRecord(id, title, type, area, bedroom, furnishing, builtUp, rent, sale) ==
    [k \in {"id", "title", "type", "subtype", "area", "bedroom", "furnishing",
            "built-up", "rent price", "sale price"} |->
        CASE k = "id" -> id
          [] k = "title" -> title
          [] k = "type" -> type
          [] k = "subtype" -> IF type = "Residential" THEN "Condo" ELSE "Shop"
          [] k = "area" -> area
          [] k = "bedroom" -> bedroom
          [] k = "furnishing" -> furnishing
          [] k = "built-up" -> builtUp
          [] k = "rent price" -> rent
          [] k = "sale price" -> sale]

ListingRecord(id, title, deadline, budget) ==
    [k \in {"id", "title", "topic", "subject", "dateCreated", "deadline", "budget"} |->
        CASE k = "id" -> id
          [] k = "title" -> title
          [] k = "topic" -> "Sales"
          [] k = "subject" -> "Leads"
          [] k = "dateCreated" -> "2025-01-10"
          [] k = "deadline" -> deadline
          [] k = "budget" -> budget]

\* lib/ListingData.json and lib/userListingData.json
initialData(a) ==
    IF a = "Property"
    THEN << PropertyRecord(<<"1">>, <<"A">>, "Residential", "KL", 3, "fully",
                           <<"1", ",", "2", "0", "0">>, 20, 500),
            PropertyRecord(<<"4">>, <<"C">>, "Residential", "PJ", 2, "partially",
                           <<"1", ",", "0", "5", "0">>, 20, 700),
            PropertyRecord(<<"9">>, <<"B">>, "Commercial", "PJ", 1, "unfurnished",
                           <<"9", "0", "0">>, 10, 900) >>
    ELSE << ListingRecord(<<"1">>, <<"L">>, "2025-02-01", 50),
            ListingRecord(<<"2">>, <<"M">>, "2025-01-20", 30) >>

\* JSON.parse(JSON.stringify(fixture)): a deep clone, the same value.
getInitialData(a) == initialData(a)

\* ------------------------------------------------------------ the mock API

EntityName(a) == a

\* The second field create insists on: property area, listing deadline.
RequiredField(a) == IF a = "Property" THEN "area" ELSE "deadline"

RECURSIVE HighestId(_, _)
HighestId(records, max) ==
    IF records = <<>> THEN max
    ELSE LET n == parseInt(Head(records)["id"])
         IN  HighestId(Tail(records), Max2(max, IF n = NaN THEN 0 ELSE n))

calculateNextId(records) == HighestId(records, 0) + 1

FreshDatabase(a) ==
    [records |-> getInitialData(a), nextId |-> calculateNextId(getInitialData(a))]

\* The browser branch: the global is created on first use and then shared.
getDatabase(a, d) == IF d = Null THEN FreshDatabase(a) ELSE d

Ok(d, v) == [db |-> d, ok |-> TRUE, value |-> v, error |-> ""]

Throw(d, msg) == [db |-> d, ok |-> FALSE, value |-> Undefined, error |-> msg]

NotFound(a, id) == EntityName(a) \o " with ID " \o Text(id) \o " not found"

getAll(a, d) ==
    LET b == getDatabase(a, d) IN Ok(b, b.records)

getById(a, d, id) ==
    LET b == getDatabase(a, d)
        i == findIndex(b.records, id)
    IN  IF i = 0 THEN Throw(b, NotFound(a, id)) ELSE Ok(b, b.records[i])

TitleMissing(data) == ~Has(data, "title") \/ trim(data["title"]) = <<>>

FieldMissing(data, k) == ~Has(data, k) \/ data[k] = ""

\* create taking its id before it validates
createCountsFirst(a, d, data) ==
    LET b == [getDatabase(a, d) EXCEPT !.nextId = @ + 1]
        new == Merge([k \in {"id"} |-> String(b.nextId - 1)], data)
    IN  IF TitleMissing(data)
        THEN Throw(b, EntityName(a) \o " title is required")
        ELSE IF FieldMissing(data, RequiredField(a))
        THEN Throw(b, EntityName(a) \o " " \o RequiredField(a) \o " is required")
        ELSE Ok([records |-> Append(b.records, new), nextId |-> b.nextId], new)

create(a, d, data) ==
    LET b == getDatabase(a, d)
        new == Merge([k \in {"id"} |-> String(b.nextId)], data)
    IN  IF TitleMissing(data)
        THEN Throw(b, EntityName(a) \o " title is required")
        ELSE IF FieldMissing(data, RequiredField(a))
        THEN Throw(b, EntityName(a) \o " " \o RequiredField(a) \o " is required")
        ELSE Ok([records |-> Append(b.records, new), nextId |-> b.nextId + 1], new)

update(a, d, id, updates) ==
    LET b == getDatabase(a, d)
        i == findIndex(b.records, id)
        updated == Merge(b.records[i], updates)
    IN  IF i = 0 THEN Throw(b, NotFound(a, id))
        ELSE Ok([b EXCEPT !.records[i] = updated], updated)

\* delete without its index check: splice(-1, 1) takes the last record
deleteUnchecked(a, d, id) ==
    LET b == getDatabase(a, d)
        i == findIndex(b.records, id)
    IN  Ok([b EXCEPT !.records = splice(b.records, IF i = 0 THEN Len(b.records) ELSE i)],
           Undefined)

delete(a, d, id) ==
    LET b == getDatabase(a, d)
        i == findIndex(b.records, id)
    IN  IF i = 0 THEN Throw(b, NotFound(a, id))
        ELSE Ok([b EXCEPT !.records = splice(b.records, i)], Undefined)

reset(a) == Ok(FreshDatabase(a), Undefined)

\* ------------------------------------------------------- utils/asyncState

NoError == ""

initialAsyncState ==
    [loading |-> FALSE, error |-> NoError, success |-> FALSE, data |-> Null]

loadingState(prev) ==
    [loading |-> TRUE, error |-> NoError, success |-> FALSE, data |-> prev.data]

successState(data) ==
    [loading |-> FALSE, error |-> NoError, success |-> TRUE, data |-> data]

errorState(message, prev) ==
    [loading |-> FALSE, error |-> message, success |-> FALSE, data |-> prev.data]

\* ------------------------------------------------- inputs of the API calls

Without(o, k) == [x \in DOMAIN o \ {k} |-> o[x]]

With(o, k, v) == [x \in DOMAIN o \cup {k} |-> IF x = k THEN v ELSE o[x]]

\* An argument a call does not have.
NoArg == <<>>

\* Ids asked for: the fixture's, and the first one a create hands out.
IdArgs(a) ==
    IF a = "Property" THEN {<<"9">>, <<"1", "0">>} ELSE {<<"2">>, <<"3">>}

NewRecord(a) ==
    IF a = "Property"
    THEN PropertyRecord(NoArg, <<"N">>, "Residential", "KL", 2, "partially",
                        <<"1", "0", "0", "0">>, 15, 700)
    ELSE ListingRecord(NoArg, <<"N">>, "2025-01-10", 40)

\* Omit<Record, "id">: complete, with an empty title, with a white-space title,
\* without a title, without the second required field.
CreateArgs(a) ==
    LET full == Without(NewRecord(a), "id")
    IN  { full,
          With(full, "title", <<>>),
          With(full, "title", <<" ", " ">>),
          Without(full, "title"),
          Without(full, RequiredField(a)) }

\* Partial<Record>: one field, two fields, and the id itself.
UpdateArgs(a) ==
    { [k \in {"title"} |-> <<"T">>],
      [k \in {"title", RequiredField(a)} |-> IF k = "title" THEN <<"U">> ELSE "Z"],
      [k \in {"id"} |-> String(calculateNextId(getInitialData(a)))] }

\* ------------------------------------------------------------ API actions

\* seq orders the calls whose delay is fixed; it is 0 for a random delay.
CallAt(op, id, data, seq) == [op |-> op, id |-> id, data |-> data, seq |-> seq]

Call(op, id, data) == CallAt(op, id, data, 0)

NoCall == Call("none", NoArg, NoArg)

Settled(c, before, r) ==
    [call |-> c, before |-> before, ok |-> r.ok, value |-> r.value, error |-> r.error]

FixtureIds(a) ==
    IF a \in Apis THEN {getInitialData(a)[i]["id"] : i \in 1..Len(getInitialData(a))}
    ELSE {}

FixtureRecord(a, id) == getInitialData(a)[findIndex(getInitialData(a), id)]

\* A call is made: it waits in simulateNetworkDelay before it touches the
\* database.
Invoke(op, id, data) ==
    /\ ncalls < MaxCalls
    /\ ncalls' = ncalls + 1
    /\ pending' = pending (+) SetToBag({Call(op, id, data)})
    /\ atOnce' = (atOnce /\ op = "update" /\ done.call.op = "none")
    /\ UNCHANGED <<api, db, done, created, freed, merged, wasReset, storeVars, uiVars>>

CallGetAll == Invoke("getAll", NoArg, NoArg)

CallGetById == \E id \in IdArgs(api) : Invoke("getById", id, NoArg)

CallCreate == \E data \in CreateArgs(api) : Invoke("create", NoArg, data)

CallUpdate == \E id \in IdArgs(api), u \in UpdateArgs(api) : Invoke("update", id, u)

CallDelete == \E id \in IdArgs(api) : Invoke("delete", id, NoArg)

\* The body of a call after its delay, run to completion in one task.
Run(a, d, c) ==
    CASE c.op = "getAll" -> getAll(a, d)
      [] c.op = "getById" -> getById(a, d, c.id)
      [] c.op = "create" -> create(a, d, c.data)
      [] c.op = "update" -> update(a, d, c.id, c.data)
      [] c.op = "delete" -> delete(a, d, c.id)

\* The timer of a waiting call fires; the delays are random, so any waiting
\* call may be the next one.
Settle ==
    \E c \in BagToSet(pending) :
        LET r == Run(api, db, c)
        IN  /\ db' = r.db
            /\ done' = Settled(c, getDatabase(api, db), r)
            /\ pending' = pending (-) SetToBag({c})
            /\ created' = IF c.op = "create" /\ r.ok
                          THEN Append(created, r.value["id"]) ELSE created
            /\ freed' = IF c.op = "delete" /\ r.ok THEN freed \cup {c.id} ELSE freed
            /\ merged' = IF c.op = "update" /\ c.id \in DOMAIN merged
                         THEN [merged EXCEPT ![c.id] = Merge(@, c.data)] ELSE merged
            /\ UNCHANGED <<api, ncalls, atOnce, wasReset, storeVars, uiVars>>

\* reset() has no delay: it replaces the global at once.
Reset ==
    /\ ncalls < MaxCalls
    /\ ncalls' = ncalls + 1
    /\ LET r == reset(api)
       IN  /\ db' = r.db
           /\ done' = Settled(Call("reset", NoArg, NoArg), getDatabase(api, db), r)
    /\ wasReset' = TRUE
    /\ atOnce' = FALSE
    /\ UNCHANGED <<api, pending, created, freed, merged, storeVars, uiVars>>

\* The page has just loaded: no global, no call made, the stores as created.
Loaded ==
    /\ db = Null
    /\ pending = EmptyBag
    /\ done = Settled(NoCall, Null, Ok(Null, Undefined))
    /\ ncalls = 0
    /\ created = <<>>
    /\ freed = {}
    /\ merged = [id \in FixtureIds(api) |-> FixtureRecord(api, id)]
    /\ atOnce = TRUE
    /\ wasReset = FALSE
    /\ ret = [call |-> NoCall, threw |-> FALSE, error |-> NoError,
              outcome |-> "none", value |-> Undefined]
    /\ nsteps = 0

Init ==
    /\ api \in Apis
    /\ Loaded
    /\ store = Null
    /\ page = Null
    /\ hist = Null

Next ==
    \/ CallGetAll
    \/ CallGetById
    \/ CallCreate
    \/ CallUpdate
    \/ CallDelete
    \/ Settle
    \/ Reset

Spec == Init /\ [][Next]_vars

\* The database as the API reads it.
View == getDatabase(api, db)

\* ---------------------------------------------------- sorting of the stores

\* s.replace(/,/g, "")
replaceCommas(s) == SelectSeq(s, LAMBDA c : c # ",")

\* new Date(s).getTime() of the dates in use, in seconds instead of milliseconds.
getTime(s) ==
    CASE s = "2025-01-10" -> 1736467200
      [] s = "2025-01-20" -> 1737331200
      [] s = "2025-02-01" -> 1738368000
      [] s = "2025-03-01" -> 1740787200

\* The comparator of each case of sortProperties' switch; the built-up sizes of
\* the model are numerals, as the edit form demands.
propertyComparator(sortBy, a, b) ==
    CASE sortBy = "rent-price-asc" -> a["rent price"] - b["rent price"]
      [] sortBy = "rent-price-desc" -> b["rent price"] - a["rent price"]
      [] sortBy = "sale-price-asc" -> a["sale price"] - b["sale price"]
      [] sortBy = "sale-price-desc" -> b["sale price"] - a["sale price"]
      [] sortBy = "bedroom-asc" -> a["bedroom"] - b["bedroom"]
      [] sortBy = "bedroom-desc" -> b["bedroom"] - a["bedroom"]
      [] sortBy = "built-up-asc" ->
            parseInt(replaceCommas(a["built-up"])) - parseInt(replaceCommas(b["built-up"]))
      [] sortBy = "built-up-desc" ->
            parseInt(replaceCommas(b["built-up"])) - parseInt(replaceCommas(a["built-up"]))
      [] OTHER -> a["rent price"] - b["rent price"]

\* The comparator of each case of sortListings' switch.
listingComparator(sortOption, a, b) ==
    CASE sortOption = "deadline-asc" -> getTime(a["deadline"]) - getTime(b["deadline"])
      [] sortOption = "deadline-desc" -> getTime(b["deadline"]) - getTime(a["deadline"])
      [] sortOption = "budget-asc" -> a["budget"] - b["budget"]
      [] sortOption = "budget-desc" -> b["budget"] - a["budget"]
      [] sortOption = "date-created-asc" ->
            getTime(a["dateCreated"]) - getTime(b["dateCreated"])
      [] sortOption = "date-created-desc" ->
            getTime(b["dateCreated"]) - getTime(a["dateCreated"])
      [] OTHER -> getTime(a["deadline"]) - getTime(b["deadline"])

Comparator(a, sortBy, x, y) ==
    IF a = "Property" THEN propertyComparator(sortBy, x, y)
    ELSE listingComparator(sortBy, x, y)

\* Array.prototype.sort is stable: x goes behind every element that does not
\* sort after it.
RECURSIVE InsertSorted(_, _, _, _)
InsertSorted(a, sortBy, sorted, x) ==
    IF sorted = <<>> THEN <<x>>
    ELSE IF Comparator(a, sortBy, Head(sorted), x) <= 0
    THEN <<Head(sorted)>> \o InsertSorted(a, sortBy, Tail(sorted), x)
    ELSE <<x>> \o sorted

RECURSIVE ArraySort(_, _, _)
ArraySort(a, sortBy, s) ==
    IF s = <<>> THEN <<>>
    ELSE InsertSorted(a, sortBy, ArraySort(a, sortBy, SubSeq(s, 1, Len(s) - 1)), s[Len(s)])

\* the copy returned as it is
sortPropertiesUnsorted(properties, sortBy) == properties

sortProperties(properties, sortBy) == ArraySort("Property", sortBy, properties)

sortListings(listings, sortOption) == ArraySort("Listing", sortOption, listings)

\* -------------------------------------------------- filters of the stores

includes(array, x) == \E i \in 1..Len(array) : array[i] = x

matchesBedroomRange(property, bedroomRange) ==
    /\ ~(bedroomRange.min # NullNumber /\ property["bedroom"] < bedroomRange.min)
    /\ ~(bedroomRange.max # NullNumber /\ property["bedroom"] > bedroomRange.max)

\* max compared with >= instead of >
matchesRentPriceRangeBelowMax(property, rentPriceRange) ==
    /\ ~(rentPriceRange.min # NullNumber /\ property["rent price"] < rentPriceRange.min)
    /\ ~(rentPriceRange.max # NullNumber /\ property["rent price"] >= rentPriceRange.max)

matchesRentPriceRange(property, rentPriceRange) ==
    /\ ~(rentPriceRange.min # NullNumber /\ property["rent price"] < rentPriceRange.min)
    /\ ~(rentPriceRange.max # NullNumber /\ property["rent price"] > rentPriceRange.max)

matchesSalePriceRange(property, salePriceRange) ==
    /\ ~(salePriceRange.min # NullNumber /\ property["sale price"] < salePriceRange.min)
    /\ ~(salePriceRange.max # NullNumber /\ property["sale price"] > salePriceRange.max)

propertyMatches(property, filters, areas, titles) ==
    /\ Len(filters.types) = 0 \/ includes(filters.types, property["type"])
    /\ Len(filters.subtypes) = 0 \/ includes(filters.subtypes, property["subtype"])
    /\ Len(areas) = 0 \/ includes(areas, property["area"])
    /\ Len(titles) = 0 \/ includes(titles, property["title"])
    /\ Len(filters.furnishing) = 0 \/ includes(filters.furnishing, property["furnishing"])
    /\ matchesBedroomRange(property, filters.bedroomRange)
    /\ matchesRentPriceRange(property, filters.rentPriceRange)
    /\ matchesSalePriceRange(property, filters.salePriceRange)

applyFiltersToProperties(properties, filters, areas, titles) ==
    SelectSeq(properties, LAMBDA property : propertyMatches(property, filters, areas, titles))

SecondsPerDay == 86400

\* Math.ceil(n / d) for d > 0
Ceil(n, d) == 0 - ((0 - n) \div d)

\* now is new Date().getTime() at the moment of the call.
calculateListingPriority(deadline, now) ==
    LET diffInDays == Ceil(getTime(deadline) - now, SecondsPerDay)
    IN  IF diffInDays <= 7 THEN "high"
        ELSE IF diffInDays <= 14 THEN "medium" ELSE "low"

matchesBudgetRange(listing, budgetRange) ==
    /\ ~(budgetRange.min # NullNumber /\ listing["budget"] < budgetRange.min)
    /\ ~(budgetRange.max # NullNumber /\ listing["budget"] > budgetRange.max)

listingMatches(listing, filters, now) ==
    /\ Len(filters.priority) = 0
        \/ includes(filters.priority, calculateListingPriority(listing["deadline"], now))
    /\ Len(filters.topics) = 0 \/ includes(filters.topics, listing["topic"])
    /\ Len(filters.subjects) = 0 \/ includes(filters.subjects, listing["subject"])
    /\ matchesBudgetRange(listing, filters.budgetRange)

applyFiltersToListings(listings, filters, now) ==
    SelectSeq(listings, LAMBDA listing : listingMatches(listing, filters, now))

calculateActiveFilterCount(filters) ==
    (IF Len(filters.types) > 0 THEN 1 ELSE 0)
    + (IF Len(filters.subtypes) > 0 THEN 1 ELSE 0)
    + (IF Len(filters.furnishing) > 0 THEN 1 ELSE 0)
    + (IF filters.bedroomRange.min # NullNumber \/ filters.bedroomRange.max # NullNumber
       THEN 1 ELSE 0)
    + (IF filters.rentPriceRange.min # NullNumber \/ filters.rentPriceRange.max # NullNumber
       THEN 1 ELSE 0)
    + (IF filters.salePriceRange.min # NullNumber \/ filters.salePriceRange.max # NullNumber
       THEN 1 ELSE 0)

calculateTotalActiveFilterCount(filters, areas, titles) ==
    calculateActiveFilterCount(filters)
    + (IF Len(areas) > 0 THEN 1 ELSE 0)
    + (IF Len(titles) > 0 THEN 1 ELSE 0)

listingActiveFilterCount(filters) ==
    (IF Len(filters.priority) > 0 THEN 1 ELSE 0)
    + (IF Len(filters.topics) > 0 THEN 1 ELSE 0)
    + (IF Len(filters.subjects) > 0 THEN 1 ELSE 0)
    + (IF filters.budgetRange.min # NullNumber \/ filters.budgetRange.max # NullNumber
       THEN 1 ELSE 0)

\* ------------------------------------------------------------ the stores

Stores == {"Property", "Listing", "Auth"}

One(k, v) == [x \in {k} |-> v]

\* zustand's set(partial): the partial state is merged into the state.
set(state, partial) == Merge(state, partial)

NoRange == [min |-> NullNumber, max |-> NullNumber]

defaultFilters ==
    [types |-> <<>>, subtypes |-> <<>>, furnishing |-> <<>>,
     bedroomRange |-> NoRange, rentPriceRange |-> NoRange, salePriceRange |-> NoRange]

defaultAreas == <<>>

defaultTitles == <<>>

defaultListingFilters ==
    [priority |-> <<>>, topics |-> <<>>, subjects |-> <<>>, budgetRange |-> NoRange]

usePropertyStore ==
    [properties |-> <<>>, filteredProperties |-> <<>>, currentProperty |-> Null,
     sortBy |-> "rent-price-asc", filters |-> defaultFilters,
     areas |-> defaultAreas, titles |-> defaultTitles,
     activeFilterCount |-> 0, activeFilterCountExcludingAreas |-> 0,
     propertyListState |-> initialAsyncState,
     propertyDetailState |-> initialAsyncState,
     propertyMutationState |-> initialAsyncState]

useListingStore ==
    [listings |-> <<>>, filteredListings |-> <<>>, currentListing |-> Null,
     sortBy |-> "deadline-asc", filters |-> defaultListingFilters,
     activeFilterCount |-> 0,
     listingListState |-> initialAsyncState,
     listingDetailState |-> initialAsyncState,
     listingMutationState |-> initialAsyncState]

useAuthStore ==
    [isAuthenticated |-> FALSE, user |-> Null, authState |-> initialAsyncState]

CreatedStore(a) ==
    CASE a = "Property" -> usePropertyStore
      [] a = "Listing" -> useListingStore
      [] a = "Auth" -> useAuthStore

\* What an async action hands back: the value its promise resolves to, or the
\* error it rejects with.
Resolves(state, v) == [store |-> state, outcome |-> "resolved", value |-> v]

Rejects(state, message) == [store |-> state, outcome |-> "rejected", value |-> Undefined]

\* A catch block that throws the error on
CatchRethrows(state, key, message) == Rejects(state, message)

\* The catch block of every async action: the message goes into the action's
\* async state and the action returns null.
Catch(state, key, message) ==
    Resolves(set(state, One(key, errorState(message, state[key]))), Null)

\* r is what the service call came back with.
fetchProperties(state, r) ==
    IF ~r.ok THEN Catch(state, "propertyListState", r.error)
    ELSE LET sortedProperties == sortProperties(r.value, state.sortBy)
         IN  Resolves(set(state,
                [propertyListState |-> successState(r.value),
                 properties |-> sortedProperties,
                 filteredProperties |->
                    applyFiltersToProperties(sortedProperties, state.filters,
                                             state.areas, state.titles),
                 activeFilterCount |->
                    calculateTotalActiveFilterCount(state.filters, state.areas,
                                                    state.titles),
                 activeFilterCountExcludingAreas |->
                    calculateActiveFilterCount(state.filters)]), r.value)

fetchPropertyById(state, r) ==
    IF ~r.ok THEN Catch(state, "propertyDetailState", r.error)
    ELSE Resolves(set(state, [propertyDetailState |-> successState(r.value),
                              currentProperty |-> r.value]), r.value)

createProperty(state, r) ==
    IF ~r.ok THEN Catch(state, "propertyMutationState", r.error)
    ELSE LET sortedProperties ==
                sortProperties(Append(state.properties, r.value), state.sortBy)
         IN  Resolves(set(state,
                [propertyMutationState |-> successState(r.value),
                 properties |-> sortedProperties,
                 filteredProperties |->
                    applyFiltersToProperties(sortedProperties, state.filters,
                                             state.areas, state.titles)]), r.value)

updateProperty(state, propertyId, r) ==
    IF ~r.ok THEN Catch(state, "propertyMutationState", r.error)
    ELSE LET properties ==
                [i \in 1..Len(state.properties) |->
                    IF state.properties[i]["id"] = propertyId THEN r.value
                    ELSE state.properties[i]]
             sortedProperties == sortProperties(properties, state.sortBy)
         IN  Resolves(set(state,
                [propertyMutationState |-> successState(r.value),
                 properties |-> sortedProperties,
                 filteredProperties |->
                    applyFiltersToProperties(sortedProperties, state.filters,
                                             state.areas, state.titles),
                 currentProperty |->
                    IF state.currentProperty # Null
                       /\ state.currentProperty["id"] = propertyId
                    THEN r.value ELSE state.currentProperty]), r.value)

deleteProperty(state, propertyId, r) ==
    IF ~r.ok THEN Catch(state, "propertyMutationState", r.error)
    ELSE LET properties ==
                SelectSeq(state.properties, LAMBDA property : property["id"] # propertyId)
             sortedProperties == sortProperties(properties, state.sortBy)
         IN  Resolves(set(state,
                [propertyMutationState |-> successState(Undefined),
                 properties |-> sortedProperties,
                 filteredProperties |->
                    applyFiltersToProperties(sortedProperties, state.filters,
                                             state.areas, state.titles),
                 currentProperty |->
                    IF state.currentProperty # Null
                       /\ state.currentProperty["id"] = propertyId
                    THEN Null ELSE state.currentProperty]), Undefined)

fetchListings(state, r, now) ==
    IF ~r.ok THEN Catch(state, "listingListState", r.error)
    ELSE LET sortedListings == sortListings(r.value, state.sortBy)
         IN  Resolves(set(state,
                [listingListState |-> successState(r.value),
                 listings |-> sortedListings,
                 filteredListings |->
                    applyFiltersToListings(sortedListings, state.filters, now)]),
                r.value)

fetchListingById(state, r) ==
    IF ~r.ok THEN Catch(state, "listingDetailState", r.error)
    ELSE Resolves(set(state, [listingDetailState |-> successState(r.value),
                              currentListing |-> r.value]), r.value)

createListing(state, r, now) ==
    IF ~r.ok THEN Catch(state, "listingMutationState", r.error)
    ELSE LET sortedListings ==
                sortListings(Append(state.listings, r.value), state.sortBy)
         IN  Resolves(set(state,
                [listingMutationState |-> successState(r.value),
                 listings |-> sortedListings,
                 filteredListings |->
                    applyFiltersToListings(sortedListings, state.filters, now)]),
                r.value)

updateListing(state, listingId, r, now) ==
    IF ~r.ok THEN Catch(state, "listingMutationState", r.error)
    ELSE LET listings ==
                [i \in 1..Len(state.listings) |->
                    IF state.listings[i]["id"] = listingId THEN r.value
                    ELSE state.listings[i]]
             sortedListings == sortListings(listings, state.sortBy)
         IN  Resolves(set(state,
                [listingMutationState |-> successState(r.value),
                 listings |-> sortedListings,
                 filteredListings |->
                    applyFiltersToListings(sortedListings, state.filters, now),
                 currentListing |->
                    IF state.currentListing # Null
                       /\ state.currentListing["id"] = listingId
                    THEN r.value ELSE state.currentListing]), r.value)

deleteListing(state, listingId, r, now) ==
    IF ~r.ok THEN Catch(state, "listingMutationState", r.error)
    ELSE LET listings ==
                SelectSeq(state.listings, LAMBDA listing : listing["id"] # listingId)
         IN  Resolves(set(state,
                [listingMutationState |-> successState(Undefined),
                 listings |-> listings,
                 filteredListings |->
                    applyFiltersToListings(listings, state.filters, now),
                 currentListing |->
                    IF state.currentListing # Null
                       /\ state.currentListing["id"] = listingId
                    THEN Null ELSE state.currentListing]), Undefined)

\* lib/userData.json
userData ==
    << [id |-> "u1", email |-> "agent@cobroker.my", password |-> "secret",
        firstName |-> "Ali"] >>

\* authService.login after its delay: the user without the password.
authLogin(d, email, password) ==
    IF \E i \in 1..Len(userData) :
            userData[i].email = email /\ userData[i].password = password
    THEN LET user == userData[CHOOSE i \in 1..Len(userData) :
                                /\ userData[i].email = email
                                /\ userData[i].password = password
                                /\ \A j \in 1..(i - 1) :
                                      ~(userData[j].email = email
                                        /\ userData[j].password = password)]
         IN  Ok(d, Without(user, "password"))
    ELSE Throw(d, "Invalid email or password")

login(state, r) ==
    IF ~r.ok THEN Catch(state, "authState", r.error)
    ELSE Resolves(set(state, [authState |-> successState(r.value),
                              isAuthenticated |-> TRUE,
                              user |-> r.value]), r.value)

logout(state) ==
    set(state, [isAuthenticated |-> FALSE, user |-> Null,
                authState |-> initialAsyncState])

\* The state an async action leaves when it is called, before it awaits the
\* service: its async state is loading.
AsyncKey(a, op) ==
    CASE a = "Auth" -> "authState"
      [] op = "getAll" -> IF a = "Property" THEN "propertyListState" ELSE "listingListState"
      [] op = "getById" ->
            IF a = "Property" THEN "propertyDetailState" ELSE "listingDetailState"
      [] OTHER ->
            IF a = "Property" THEN "propertyMutationState" ELSE "listingMutationState"

Called(a, state, op) ==
    LET cleared == IF a = "Property" /\ op = "getById"
                   THEN set(state, [currentProperty |-> Null]) ELSE state
    IN  set(cleared, One(AsyncKey(a, op), loadingState(cleared[AsyncKey(a, op)])))

\* The rest of an async action once the service call c has come back with r.
Returned(a, state, c, r, now) ==
    CASE a = "Auth" -> login(state, r)
      [] a = "Property" /\ c.op = "getAll" -> fetchProperties(state, r)
      [] a = "Property" /\ c.op = "getById" -> fetchPropertyById(state, r)
      [] a = "Property" /\ c.op = "create" -> createProperty(state, r)
      [] a = "Property" /\ c.op = "update" -> updateProperty(state, c.id, r)
      [] a = "Property" /\ c.op = "delete" -> deleteProperty(state, c.id, r)
      [] a = "Listing" /\ c.op = "getAll" -> fetchListings(state, r, now)
      [] a = "Listing" /\ c.op = "getById" -> fetchListingById(state, r)
      [] a = "Listing" /\ c.op = "create" -> createListing(state, r, now)
      [] a = "Listing" /\ c.op = "update" -> updateListing(state, c.id, r, now)
      [] a = "Listing" /\ c.op = "delete" -> deleteListing(state, c.id, r, now)

\* The service behind a store: the mock API, or authService.
Service(a, d, c) ==
    IF a = "Auth" THEN authLogin(d, c.data.email, c.data.password) ELSE Run(a, d, c)

\* ----------------------------------------------------- sync store actions

setSortOption(state, option) ==
    LET sortedProperties == sortProperties(state.properties, option)
    IN  set(state, [sortBy |-> option,
                    properties |-> sortedProperties,
                    filteredProperties |->
                        applyFiltersToProperties(sortedProperties, state.filters,
                                                 state.areas, state.titles)])

setListingSortOption(state, option, now) ==
    LET sortedListings == sortListings(state.listings, option)
    IN  set(state, [sortBy |-> option,
                    listings |-> sortedListings,
                    filteredListings |->
                        applyFiltersToListings(sortedListings, state.filters, now)])

\* setFilter of either store
setFilter(state, filterType, value) ==
    set(state, [filters |-> set(state.filters, One(filterType, value))])

setAreas(state, areas) == set(state, [areas |-> areas])

applyAreasFilter(state) ==
    set(state,
        [filteredProperties |->
            applyFiltersToProperties(state.properties, state.filters, state.areas,
                                     state.titles),
         activeFilterCount |->
            calculateTotalActiveFilterCount(state.filters, state.areas, state.titles),
         activeFilterCountExcludingAreas |-> calculateActiveFilterCount(state.filters)])

applyListingFilters(state, now) ==
    set(state,
        [filteredListings |-> applyFiltersToListings(state.listings, state.filters, now),
         activeFilterCount |-> listingActiveFilterCount(state.filters)])

\* ------------------------------------------------ inputs of store actions

\* What the create and edit forms submit.
StoreCreateArgs(a) ==
    LET full == Without(NewRecord(a), "id")
    IN  {full, With(full, "title", <<" ", " ">>)}

StoreUpdateArgs(a) ==
    IF a = "Property"
    THEN { [k \in {"title"} |-> <<"T">>],
           [k \in {"bedroom", "rent price", "built-up"} |->
                CASE k = "bedroom" -> 5
                  [] k = "rent price" -> 30
                  [] k = "built-up" -> <<"8", "0", "0">>] }
    ELSE { [k \in {"title"} |-> <<"T">>],
           [k \in {"budget", "deadline"} |->
                IF k = "budget" THEN 99 ELSE "2025-03-01"] }

\* The options of the sort menu, and a ?sort= parameter that is none of them.
SortOptions(a) ==
    IF a = "Property"
    THEN {"rent-price-asc", "rent-price-desc", "sale-price-asc", "sale-price-desc",
          "bedroom-asc", "bedroom-desc", "built-up-asc", "built-up-desc", "newest"}
    ELSE {"deadline-asc", "deadline-desc", "budget-asc", "budget-desc",
          "date-created-asc", "date-created-desc", "newest"}

AreaArgs == {<<"KL">>, <<"PJ", "KL">>}

Credentials ==
    { [email |-> "agent@cobroker.my", password |-> "secret"],
      [email |-> "agent@cobroker.my", password |-> "wrong"] }

\* new Date().getTime(): noon of 2025-01-10, and of 2025-01-27
Nows == {1736510400, 1737979200}

\* ---------------------------------------------------------- store actions

Step == nsteps < MaxSteps /\ nsteps' = nsteps + 1

\* An async action is called: it marks its async state loading and awaits the
\* service.
StoreCall(op, id, data) ==
    /\ Step
    /\ store' = Called(api, store, op)
    /\ pending' = pending (+)
            SetToBag({CallAt(op, id, data, IF api = "Auth" THEN nsteps + 1 ELSE 0)})
    /\ UNCHANGED <<api, db, ret, apiVars, uiVars>>

Fetch == api \in Apis /\ StoreCall("getAll", NoArg, NoArg)

FetchById == api \in Apis /\ \E id \in IdArgs(api) : StoreCall("getById", id, NoArg)

Create == api \in Apis /\ \E data \in StoreCreateArgs(api) : StoreCall("create", NoArg, data)

Update ==
    /\ api \in Apis
    /\ \E id \in IdArgs(api), data \in StoreUpdateArgs(api) : StoreCall("update", id, data)

Delete == api \in Apis /\ \E id \in IdArgs(api) : StoreCall("delete", id, NoArg)

Login == api = "Auth" /\ \E c \in Credentials : StoreCall("login", NoArg, c)

\* The service call of an async action comes back and the action runs to its
\* end.  The mock API's delays are random; authService's is fixed, so logins
\* come back in the order they were made.
Return ==
    \E c \in BagToSet(pending), now \in Nows :
        /\ \A o \in BagToSet(pending) : c.seq <= o.seq
        /\ LET r == Service(api, db, c)
               res == Returned(api, store, c, r, now)
           IN  /\ db' = r.db
               /\ store' = res.store
               /\ ret' = [call |-> c, threw |-> ~r.ok, error |-> r.error,
                          outcome |-> res.outcome, value |-> res.value]
        /\ pending' = pending (-) SetToBag({c})
        /\ UNCHANGED <<api, nsteps, apiVars, uiVars>>

Sync(next) ==
    /\ Step
    /\ store' = next
    /\ UNCHANGED <<api, db, pending, ret, apiVars, uiVars>>

SetSortOption ==
    /\ api = "Property"
    /\ \E option \in SortOptions(api) : Sync(setSortOption(store, option))

SetListingSortOption ==
    /\ api = "Listing"
    /\ \E option \in SortOptions(api), now \in Nows :
            Sync(setListingSortOption(store, option, now))

SetAreas == api = "Property" /\ \E areas \in AreaArgs : Sync(setAreas(store, areas))

ApplyAreasFilter == api = "Property" /\ Sync(applyAreasFilter(store))

SetListingFilter ==
    /\ api = "Listing"
    /\ Sync(setFilter(store, "budgetRange", [min |-> 40, max |-> NullNumber]))

ApplyListingFilters ==
    api = "Listing" /\ \E now \in Nows : Sync(applyListingFilters(store, now))

Logout == api = "Auth" /\ Sync(logout(store))

StoreInit ==
    /\ api \in Stores
    /\ Loaded
    /\ store = CreatedStore(api)
    /\ page = Null
    /\ hist = Null

StoreNext ==
    \/ Fetch
    \/ FetchById
    \/ Create
    \/ Update
    \/ Delete
    \/ Login
    \/ Return
    \/ SetSortOption
    \/ SetListingSortOption
    \/ SetAreas
    \/ ApplyAreasFilter
    \/ SetListingFilter
    \/ ApplyListingFilters
    \/ Logout

StoreSpec == StoreInit /\ [][StoreNext]_vars

\* ------------------------------------------- the filter actions on their own

clearFilters(state) ==
    set(state,
        [filters |-> defaultFilters,
         filteredProperties |->
            applyFiltersToProperties(state.properties, defaultFilters, state.areas,
                                     state.titles),
         activeFilterCount |->
            calculateTotalActiveFilterCount(defaultFilters, state.areas, state.titles),
         activeFilterCountExcludingAreas |-> calculateActiveFilterCount(defaultFilters)])

clearFilter(state, filterType) ==
    LET newFilters == set(state.filters, One(filterType, defaultFilters[filterType]))
    IN  set(state,
            [filters |-> newFilters,
             filteredProperties |->
                applyFiltersToProperties(state.properties, newFilters, state.areas,
                                         state.titles),
             activeFilterCount |->
                calculateTotalActiveFilterCount(newFilters, state.areas, state.titles),
             activeFilterCountExcludingAreas |-> calculateActiveFilterCount(newFilters)])

applyFilters(state) ==
    set(state,
        [filteredProperties |->
            applyFiltersToProperties(state.properties, state.filters, state.areas,
                                     state.titles)])

clearAreas(state) ==
    set(state,
        [areas |-> defaultAreas,
         filteredProperties |->
            applyFiltersToProperties(state.properties, state.filters, defaultAreas,
                                     state.titles),
         activeFilterCount |->
            calculateTotalActiveFilterCount(state.filters, defaultAreas, state.titles),
         activeFilterCountExcludingAreas |-> calculateActiveFilterCount(state.filters)])

\* The choices of the filter panel that the fixture tells apart.
FilterArgs ==
    [types : {<<"Residential">>},
     subtypes : {<<"Shop", "Condo">>, <<"Shop">>},
     furnishing : {<<"fully", "partially">>},
     bedroomRange : {[min |-> 2, max |-> 3], [min |-> 2, max |-> NullNumber]},
     rentPriceRange : {[min |-> NullNumber, max |-> 20], [min |-> 20, max |-> 20]},
     salePriceRange : {[min |-> 600, max |-> 900]}]

\* The property store once the list page has fetched the fixture.
Fetched ==
    fetchProperties(Called("Property", usePropertyStore, "getAll"),
                    getAll("Property", Null)).store

Filter(next) ==
    /\ store' = next
    /\ UNCHANGED <<api, db, pending, ret, nsteps, apiVars, uiVars>>

SetFilter ==
    /\ api = "Property"
    /\ \E args \in FilterArgs : \E filterType \in DOMAIN args :
            Filter(setFilter(store, filterType, args[filterType]))

ClearFilter ==
    /\ api = "Property"
    /\ \E filterType \in DOMAIN defaultFilters : Filter(clearFilter(store, filterType))

ClearFilters == api = "Property" /\ Filter(clearFilters(store))

ApplyFilters == api = "Property" /\ Filter(applyFilters(store))

SetAreasOnly == api = "Property" /\ \E areas \in AreaArgs : Filter(setAreas(store, areas))

ClearAreas == api = "Property" /\ Filter(clearAreas(store))

ApplyAreas == api = "Property" /\ Filter(applyAreasFilter(store))

FilterInit ==
    /\ api = "Property"
    /\ Loaded
    /\ store = Fetched
    /\ page = Null
    /\ hist = Null

FilterNext ==
    \/ SetFilter
    \/ ClearFilter
    \/ ClearFilters
    \/ ApplyFilters
    \/ SetAreasOnly
    \/ ClearAreas
    \/ ApplyAreas

FilterSpec == FilterInit /\ [][FilterNext]_vars

\* ------------------------------------------------- the reset functions

\* utils/asyncState resetState(): the initial async state
resetState == initialAsyncState

\* a value that is neither null nor undefined
Truthy(v) == v # Null /\ v # Undefined

\* The function createResetFunction returns for an async state: the state goes
\* back to the initial one, and keeps its data if asked to and there is some.
createResetFunction(state, key, preserve) ==
    LET data == IF preserve /\ Truthy(state[key].data) THEN state[key].data ELSE Null
    IN  set(state, One(key, Merge(resetState, [data |-> data])))

\* --------------------------------------------- the property detail page

\* useState of PropertyDetailClient, the propertyId it was given, the mounted
\* instance, and the 50 ms timers of the success effect still to fire.
FreshPage(propertyId, instance, timers) ==
    [propertyId |-> propertyId, instance |-> instance,
     editingBasicInfo |-> FALSE, editingDetails |-> FALSE,
     isSaving |-> FALSE, pendingUpdates |-> Null, timers |-> timers]

Sections == {"basicInfo", "details"}

Editing(pg, section) ==
    IF section = "basicInfo" THEN pg.editingBasicInfo ELSE pg.editingDetails

SetEditing(pg, section, on) ==
    IF section = "basicInfo" THEN [pg EXCEPT !.editingBasicInfo = on]
    ELSE [pg EXCEPT !.editingDetails = on]

\* What the component returns: the branch taken, and the isError and
\* errorMessage props an edit form is given.
Screen(state, pg) ==
    LET detail == state.propertyDetailState
        show(kind, message) ==
            [kind |-> kind, isError |-> detail.error # NoError, message |-> message]
    IN  IF detail.loading /\ state.currentProperty = Null THEN show("loading", "")
        ELSE IF detail.error # NoError /\ ~pg.isSaving THEN show("error", detail.error)
        ELSE IF state.currentProperty = Null /\ ~pg.isSaving THEN show("notFound", "")
        ELSE IF state.currentProperty = Null THEN show("loading", "")
        ELSE IF pg.editingBasicInfo \/ pg.editingDetails THEN show("form", detail.error)
        ELSE show("view", "")

\* isLoading of the forms and disabled of the Edit buttons
Busy(state, pg) == state.propertyDetailState.loading \/ pg.isSaving

\* isFormDisabled of an edit form that is not itself submitting
isFormDisabled(state, pg) == Busy(state, pg) \/ state.propertyDetailState.success

Click == nsteps < MaxClicks /\ nsteps' = nsteps + 1

\* The route shows the page of a property: the cleanup of the page before it,
\* then the mount effect.  The router may hand the new id to the mounted
\* component or mount a new one.
Visit ==
    \E id \in IdArgs("Property"), keep \in BOOLEAN :
        /\ Click
        /\ page.propertyId # id
        /\ keep => page.propertyId # NoArg
        /\ LET cleared == set(store, [currentProperty |-> Null])
               initial == createResetFunction(cleared, "propertyDetailState", FALSE)
           IN  store' = Called("Property", initial, "getById")
        /\ pending' = pending (+) SetToBag({Call("getById", id, NoArg)})
        /\ page' = IF keep THEN [page EXCEPT !.propertyId = id]
                   ELSE FreshPage(id, page.instance + 1, page.timers)
        /\ UNCHANGED <<api, db, ret, hist, apiVars>>

\* An Edit button
OpenEdit ==
    \E section \in Sections :
        /\ Click
        /\ Screen(store, page).kind \in {"view", "form"}
        /\ ~Editing(page, section)
        /\ ~Busy(store, page)
        /\ store' = createResetFunction(store, "propertyDetailState", FALSE)
        /\ page' = SetEditing(page, section, TRUE)
        /\ UNCHANGED <<api, db, pending, ret, hist, apiVars>>

\* Save Changes: handlePropertyUpdate up to its await
Submit ==
    \E section \in Sections, data \in StoreUpdateArgs("Property") :
        /\ Click
        /\ Screen(store, page).kind = "form"
        /\ Editing(page, section)
        /\ ~isFormDisabled(store, page)
        /\ page' = [page EXCEPT !.isSaving = TRUE,
                                !.pendingUpdates = [section |-> section, data |-> data]]
        /\ store' = Called("Property", store, "update")
        /\ pending' = pending (+)
                SetToBag({CallAt("update", page.propertyId, data, page.instance)})
        /\ UNCHANGED <<api, db, ret, hist, apiVars>>

\* Cancel of an edit form
Cancel ==
    \E section \in Sections :
        /\ Click
        /\ Screen(store, page).kind = "form"
        /\ Editing(page, section)
        /\ ~isFormDisabled(store, page)
        /\ page' = [SetEditing(page, section, FALSE) EXCEPT !.isSaving = FALSE,
                                                           !.pendingUpdates = Null]
        /\ store' = createResetFunction(store, "propertyDetailState", TRUE)
        /\ UNCHANGED <<api, db, pending, ret, hist, apiVars>>

\* deleteProperty called from the list of properties
Remove ==
    \E id \in IdArgs("Property") :
        /\ Click
        /\ store' = Called("Property", store, "delete")
        /\ pending' = pending (+) SetToBag({Call("delete", id, NoArg)})
        /\ UNCHANGED <<api, db, ret, page, hist, apiVars>>

\* A service call comes back, the store action runs to its end, and
\* handlePropertyUpdate goes on after its await if its component is mounted.
Answer ==
    \E c \in BagToSet(pending) :
        /\ \E r \in {Service(api, db, c)} :
             \E res \in {Returned(api, store, c, r, 0)} :
                /\ db' = r.db
                /\ store' = res.store
                /\ ret' = [call |-> c, threw |-> ~r.ok, error |-> r.error,
                           outcome |-> res.outcome, value |-> res.value]
                /\ page' = IF c.op = "update" /\ ~Truthy(res.value)
                              /\ c.seq = page.instance
                           THEN [page EXCEPT !.isSaving = FALSE,
                                             !.pendingUpdates = Null]
                           ELSE page
        /\ pending' = pending (-) SetToBag({c})
        /\ UNCHANGED <<api, nsteps, hist, apiVars>>

\* The success effect, when its condition holds after a render
SuccessEffect ==
    /\ store.propertyDetailState.success
    /\ page.isSaving
    /\ page' = [page EXCEPT !.editingBasicInfo = FALSE, !.editingDetails = FALSE,
                            !.isSaving = FALSE, !.pendingUpdates = Null,
                            !.timers = @ + 1]
    /\ UNCHANGED <<api, db, pending, store, ret, nsteps, hist, apiVars>>

\* A timer of the success effect fires.
Timeout ==
    /\ page.timers > 0
    /\ store' = createResetFunction(store, "propertyDetailState", TRUE)
    /\ page' = [page EXCEPT !.timers = @ - 1]
    /\ UNCHANGED <<api, db, pending, ret, nsteps, hist, apiVars>>

DetailInit ==
    /\ api = "Property"
    /\ Loaded
    /\ store = usePropertyStore
    /\ page = FreshPage(NoArg, 0, 0)
    /\ hist = Null

\* What happens without the user
DetailRuns ==
    \/ Answer
    \/ SuccessEffect
    \/ Timeout

DetailNext ==
    \/ Visit
    \/ OpenEdit
    \/ Submit
    \/ Cancel
    \/ Remove
    \/ DetailRuns

\* Effects run after the render that makes their condition hold, timers fire,
\* and the mock API answers every call after its delay: weak fairness of
\* SuccessEffect, Timeout and Answer.  Answer can be taken exactly when a call
\* is in flight, so its fairness is written with that condition.
DetailSpec ==
    /\ DetailInit /\ [][DetailNext]_vars
    /\ WF_vars(SuccessEffect)
    /\ WF_vars(Timeout)
    /\ ([]<>(pending = EmptyBag) \/ []<><<Answer>>_vars)

\* ------------------------------------------------------------------ claims

Ids(records) == [i \in 1..Len(records) |-> records[i]["id"]]

IdAbsent(records, id) == \A i \in 1..Len(records) : records[i]["id"] # id

LastWas(op) == done.call.op = op

\* C1: in a mock-API collection no two records have the same id, whatever
\* create, update and delete calls were made, in flight together or not.
C1_UniqueIds ==
    \A i, j \in 1..Len(View.records) :
        i # j => View.records[i]["id"] # View.records[j]["id"]

\* C2: a successful update(id, updates) replaces the record with that id by the
\* old record with every field of updates overridden and every other field as
\* it was, returns that record, and leaves the other records, the order of the
\* collection and nextId alone.
C2_UpdateIsShallowMerge ==
    (LastWas("update") /\ done.ok) =>
        LET old == done.before.records
            new == View.records
            u == done.call.data
        IN  /\ Len(new) = Len(old)
            /\ View.nextId = done.before.nextId
            /\ \E i \in 1..Len(old) :
                /\ old[i]["id"] = done.call.id
                /\ \A j \in 1..(i - 1) : old[j]["id"] # done.call.id
                /\ DOMAIN new[i] = DOMAIN old[i] \cup DOMAIN u
                /\ \A k \in DOMAIN u : new[i][k] = u[k]
                /\ \A k \in DOMAIN old[i] \ DOMAIN u : new[i][k] = old[i][k]
                /\ done.value = new[i]
                /\ \A j \in 1..Len(old) : j # i => new[j] = old[j]

C2_Witness ==
    /\ LastWas("update") /\ done.ok
    /\ Len(View.records) = 3
    /\ "title" \in DOMAIN done.call.data
    /\ \E i \in 1..Len(View.records) :
        /\ View.records[i]["title"] = done.call.data["title"]
        /\ done.before.records[i]["title"] # done.call.data["title"]
        /\ View.records[i]["bedroom" ] = done.before.records[i]["bedroom"]

\* C3: when several update calls on the same record are in flight at once, the
\* record ends as the merges of all of them applied in the order in which the
\* calls settle: the last call to settle wins a field that several set, and a
\* field that one call set keeps that call's value.
C3_LastWriteWins ==
    (atOnce /\ ncalls >= 2 /\ pending = EmptyBag) =>
        \A i \in 1..Len(getInitialData(api)) :
            View.records[i] = merged[getInitialData(api)[i]["id"]]

\* C4: without a reset, every successful create hands out the decimal string
\* of a number greater than every fixture id and than every id handed out
\* before, and never an id that a delete has freed.
C4_IdsIncrease ==
    ~wasReset =>
        /\ \A i \in 1..Len(created) :
            /\ created[i] = String(parseInt(created[i]))
            /\ \A id \in FixtureIds(api) : parseInt(created[i]) > parseInt(id)
            /\ \A j \in 1..(i - 1) : parseInt(created[j]) < parseInt(created[i])
        /\ (LastWas("create") /\ done.ok) => done.value["id"] \notin freed

\* C5: a successful delete(id) removes one record, which has that id; the others
\* stay as they were and in their order, and nextId stays.
C5_DeleteRemovesOne ==
    (LastWas("delete") /\ done.ok) =>
        LET old == done.before.records
            new == View.records
        IN  /\ View.nextId = done.before.nextId
            /\ Len(new) = Len(old) - 1
            /\ \E i \in 1..Len(old) :
                /\ old[i]["id"] = done.call.id
                /\ \A j \in 1..(i - 1) : new[j] = old[j]
                /\ \A j \in i..Len(new) : new[j] = old[j + 1]

C5_Witness ==
    /\ LastWas("delete") /\ done.ok
    /\ Len(done.before.records) = 4
    /\ done.before.records[3]["id"] = done.call.id
    /\ Len(View.records) = 3
    /\ View.records[3] = done.before.records[4]

\* The message of a lookup that found nothing, as the source spells it.
NotFoundText ==
    IF api = "Property"
    THEN IF done.call.id = <<"9">> THEN "Property with ID 9 not found"
         ELSE "Property with ID 10 not found"
    ELSE IF done.call.id = <<"2">> THEN "Listing with ID 2 not found"
         ELSE "Listing with ID 3 not found"

\* C6: getById, update and delete of an id that is not in the collection fail
\* with '<Property|Listing> with ID <id> not found' and change neither the
\* collection nor nextId.
C6_NotFound ==
    (done.call.op \in {"getById", "update", "delete"}
        /\ IdAbsent(done.before.records, done.call.id)) =>
        /\ ~done.ok
        /\ done.error = NotFoundText
        /\ View = done.before

C6_Witness ==
    /\ LastWas("delete") /\ ~done.ok
    /\ done.call.id = <<"1", "0">>
    /\ done.error = "Property with ID 10 not found"
    /\ Len(View.records) = 3

\* C7: create without a title, or with an empty or white-space title, fails with
\* '... title is required', and without the property area or listing deadline
\* with '... is required'; a failed create adds no record and uses up no id.
C7_CreateValidates ==
    LastWas("create") =>
        LET data == done.call.data
            noTitle == "title" \notin DOMAIN data
                       \/ \A i \in 1..Len(data["title"]) : data["title"][i] = " "
            noField == RequiredField(api) \notin DOMAIN data
        IN  /\ noTitle => (~done.ok /\ done.error =
                             (IF api = "Property" THEN "Property title is required"
                              ELSE "Listing title is required"))
            /\ (~noTitle /\ noField) => (~done.ok /\ done.error =
                             (IF api = "Property" THEN "Property area is required"
                              ELSE "Listing deadline is required"))
            /\ ~done.ok => View = done.before
            /\ done.ok => /\ done.value["id"] = String(done.before.nextId)
                          /\ View.nextId = done.before.nextId + 1
                          /\ View.records = Append(done.before.records, done.value)

C7_Witness ==
    /\ LastWas("create") /\ ~done.ok
    /\ "title" \in DOMAIN done.call.data
    /\ done.call.data["title"] = <<" ", " ">>
    /\ done.error = "Property title is required"
    /\ Len(created) = 1
    /\ View.nextId = 11

\* A step in which a service call of the store comes back, one in which an
\* async action of the store is called.
Returns == BagCardinality(pending') < BagCardinality(pending)

Calls == BagCardinality(pending') > BagCardinality(pending)

\* What an async action must leave alone when its service throws.
Kept ==
    CASE api = "Property" -> {"properties", "filteredProperties", "filters", "sortBy"}
      [] api = "Listing" -> {"listings", "filteredListings", "filters", "sortBy"}
      [] api = "Auth" -> {"isAuthenticated", "user"}

\* C8: no async action of the property, listing and auth stores rejects; when
\* its service throws, the action resolves to null, its async state holds the
\* message thrown, and neither the call nor the failure changes the
\* collection, the filtered collection, filters, sortBy, isAuthenticated or user.
C8_ErrorsCaught ==
    [][/\ Calls => \A k \in Kept : store'[k] = store[k]
       /\ Returns =>
            /\ ret'.outcome = "resolved"
            /\ ret'.threw =>
                /\ ret'.value = Null
                /\ store'[AsyncKey(api, ret'.call.op)].error = ret'.error
                /\ ret'.error # NoError
                /\ \A k \in Kept : store'[k] = store[k]]_vars

C8_Witness ==
    /\ api = "Property"
    /\ ret.threw /\ ret.outcome = "resolved" /\ ret.call.op = "update"
    /\ store.propertyMutationState.error = "Property with ID 10 not found"
    /\ Len(store.properties) = 3

\* The groups of the property filter, as the panel describes them.
InGroup(group, value) == Len(group) = 0 \/ \E i \in 1..Len(group) : group[i] = value

InRange(range, value) ==
    /\ range.min = NullNumber \/ value >= range.min
    /\ range.max = NullNumber \/ value <= range.max

Satisfies(p, state) ==
    /\ InGroup(state.filters.types, p["type"])
    /\ InGroup(state.filters.subtypes, p["subtype"])
    /\ InGroup(state.areas, p["area"])
    /\ InGroup(state.titles, p["title"])
    /\ InGroup(state.filters.furnishing, p["furnishing"])
    /\ InRange(state.filters.bedroomRange, p["bedroom"])
    /\ InRange(state.filters.rentPriceRange, p["rent price"])
    /\ InRange(state.filters.salePriceRange, p["sale price"])

\* C9: after applyFilters and after applyAreasFilter, filteredProperties is the
\* records of properties that satisfy every filter group, in the order they
\* have in properties.
C9_FilteredIsSelection ==
    [][(ApplyFilters \/ ApplyAreas) =>
            store'.filteredProperties =
                SelectSeq(store'.properties, LAMBDA p : Satisfies(p, store'))]_vars

\* Several groups are set, applied, and select the middle record of the three.
C9_Witness ==
    /\ store.areas = <<"PJ", "KL">>
    /\ store.filters.rentPriceRange = [min |-> 20, max |-> 20]
    /\ store.filters.bedroomRange = [min |-> 2, max |-> NullNumber]
    /\ store.filters.salePriceRange = [min |-> 600, max |-> 900]
    /\ Len(store.properties) = 3
    /\ store.filteredProperties = <<store.properties[3]>>

\* The key and the direction that a sort option names.
SortKey(sortBy, p) ==
    CASE sortBy \in {"rent-price-asc", "rent-price-desc"} -> p["rent price"]
      [] sortBy \in {"sale-price-asc", "sale-price-desc"} -> p["sale price"]
      [] sortBy \in {"bedroom-asc", "bedroom-desc"} -> p["bedroom"]
      [] sortBy \in {"built-up-asc", "built-up-desc"} ->
            DigitsValue(SelectSeq(p["built-up"], IsDigit), 0)

Descending(sortBy) ==
    sortBy \in {"rent-price-desc", "sale-price-desc", "bedroom-desc", "built-up-desc"}

NamesAKey(sortBy) ==
    sortBy \in {"rent-price-asc", "rent-price-desc", "sale-price-asc", "sale-price-desc",
                "bedroom-asc", "bedroom-desc", "built-up-asc", "built-up-desc"}

Ordered(list, sortBy) ==
    \A i \in 1..(Len(list) - 1) :
        IF Descending(sortBy)
        THEN SortKey(sortBy, list[i]) >= SortKey(sortBy, list[i + 1])
        ELSE SortKey(sortBy, list[i]) <= SortKey(sortBy, list[i + 1])

\* An option that names no key orders nothing; the store sorts by rent then.
OrderedAsStored(list, sortBy) ==
    Ordered(list, IF NamesAKey(sortBy) THEN sortBy ELSE "rent-price-asc")

Count(list, x) == Cardinality({i \in 1..Len(list) : list[i] = x})

Reordered(old, new) ==
    /\ Len(old) = Len(new)
    /\ \A i \in 1..Len(old) : Count(old, old[i]) = Count(new, old[i])

\* A step that ends a successful fetch, create, update or delete of properties.
PropertyListDone ==
    /\ api = "Property"
    /\ Returns
    /\ ~ret'.threw
    /\ ret'.call.op \in {"getAll", "create", "update", "delete"}

\* C10 as stated: after a successful fetchProperties, createProperty,
\* updateProperty, deleteProperty and after setSortOption, properties and
\* filteredProperties are ordered by the key and direction of sortBy, and
\* setSortOption only reorders the two lists.
C10_SortedAndOnlyReordered ==
    [][/\ (PropertyListDone \/ SetSortOption) =>
            (NamesAKey(store'.sortBy) =>
                /\ Ordered(store'.properties, store'.sortBy)
                /\ Ordered(store'.filteredProperties, store'.sortBy))
       /\ SetSortOption =>
            /\ Reordered(store.properties, store'.properties)
            /\ Reordered(store.filteredProperties, store'.filteredProperties)]_vars

\* C10 amended: the two lists are ordered by sortBy, by rent ascending when
\* sortBy names no key; setSortOption only reorders properties, and makes
\* filteredProperties the records of properties that satisfy the store's
\* filters and areas as they are now, which only reorders filteredProperties
\* if it was that selection already.
C10_SortedAndRefiltered ==
    [][/\ (PropertyListDone \/ SetSortOption) =>
            /\ OrderedAsStored(store'.properties, store'.sortBy)
            /\ OrderedAsStored(store'.filteredProperties, store'.sortBy)
       /\ SetSortOption =>
            /\ Reordered(store.properties, store'.properties)
            /\ store'.filteredProperties =
                    SelectSeq(store'.properties, LAMBDA p : Satisfies(p, store'))
            /\ (store.filteredProperties =
                    SelectSeq(store.properties, LAMBDA p : Satisfies(p, store)))
                => Reordered(store.filteredProperties, store'.filteredProperties)]_vars

\* setSortOption has turned the fetched list around, with an area filter on.
C10_Witness ==
    /\ api = "Property"
    /\ store.sortBy = "built-up-desc"
    /\ Ids(store.properties) = << <<"1">>, <<"4">>, <<"9">> >>
    /\ store.areas = <<"KL">>
    /\ Len(store.filteredProperties) = 1

\* ---------------------------------------- claims on the property detail page

\* updateProperty has resolved to the updated record for the page that
\* submitted it, and the page is still saving.
UpdateSucceeded ==
    /\ ret.call.op = "update"
    /\ ~ret.threw
    /\ ret.call.seq = page.instance
    /\ page.isSaving

Cleaned ==
    /\ ~page.editingBasicInfo
    /\ ~page.editingDetails
    /\ ~page.isSaving
    /\ page.pendingUpdates = Null

\* C11: once updateProperty has succeeded for an edit submitted on the detail
\* page, the page eventually has both edit forms closed, isSaving false and
\* pendingUpdates null.
C11_SavingEnds == UpdateSucceeded ~> Cleaned

\* updateProperty comes back to the page that submitted it with a failure.
UpdateFails ==
    /\ Answer
    /\ ret'.call.op = "update"
    /\ ret'.threw
    /\ ret'.call.seq = page.instance

\* C12: when updateProperty fails for an edit submitted on the detail page,
\* isSaving becomes false and pendingUpdates null, and an edit form that is
\* open is given isError = true and the message of the failure.
C12_FailureIsShown ==
    [][UpdateFails =>
            /\ ~page'.isSaving
            /\ page'.pendingUpdates = Null
            /\ Screen(store', page').kind = "form" =>
                    /\ Screen(store', page').isError
                    /\ Screen(store', page').message = ret'.error]_vars

\* C17: once the page has called fetchPropertyById(id), currentProperty is
\* null or the record whose id is id, whatever calls are still in flight.
C17_NeverStale ==
    page.propertyId # NoArg =>
        \/ store.currentProperty = Null
        \/ store.currentProperty["id"] = page.propertyId

\* ------------------------------------------------------ a reload of the page

\* what a reload would leave if globals were carried over
WindowKept(d) == d

\* The window of the document that is loaded: a global that the scripts of
\* the document before it had set is not there.
Window(d) == Null

\* what would be stored if the whole state were written
partializeAll(state) == state

\* partialize of the persist options: the part of the state that is written
\* to localStorage under "auth-storage" whenever the state is set.
partialize(state) == [isAuthenticated |-> state.isAuthenticated, user |-> state.user]

\* The store as created when the scripts run again; persist merges into it
\* what it finds in localStorage.
Rehydrated(a, state) ==
    IF a = "Auth" THEN Merge(CreatedStore(a), partialize(state)) ELSE CreatedStore(a)

\* What a session remembers: whether logout was the last of login and logout
\* to be called, and the database and the store that the last reload ended.
NoHistory == [loggedOut |-> FALSE, reloaded |-> FALSE, db |-> Null, store |-> Null]

SignIn ==
    /\ api = "Auth"
    /\ Step
    /\ \E c \in Credentials :
            pending' = pending (+) SetToBag({CallAt("login", NoArg, c, nsteps + 1)})
    /\ store' = Called(api, store, "login")
    /\ hist' = [hist EXCEPT !.loggedOut = FALSE]
    /\ UNCHANGED <<api, db, ret, page, apiVars>>

SignOut ==
    /\ api = "Auth"
    /\ Step
    /\ store' = logout(store)
    /\ hist' = [hist EXCEPT !.loggedOut = TRUE]
    /\ UNCHANGED <<api, db, pending, ret, page, apiVars>>

\* The user reloads the page: the calls in flight are gone with the document,
\* the scripts run again and the stores are created again.
Reload ==
    /\ Step
    /\ db' = Window(db)
    /\ pending' = EmptyBag
    /\ store' = Rehydrated(api, store)
    /\ hist' = [hist EXCEPT !.reloaded = TRUE, !.db = getDatabase(api, db),
                            !.store = store]
    /\ UNCHANGED <<api, ret, page, apiVars>>

SessionInit ==
    /\ api \in Stores
    /\ Loaded
    /\ store = CreatedStore(api)
    /\ page = Null
    /\ hist = NoHistory

SessionNext ==
    \/ Fetch
    \/ Create
    \/ Update
    \/ Delete
    \/ Return
    \/ SignIn
    \/ SignOut
    \/ Reload

SessionSpec == SessionInit /\ [][SessionNext]_vars

C14_OnlySessionPersisted ==
    [][api = "Auth" =>
            /\ DOMAIN partialize(store) = {"isAuthenticated", "user"}
            /\ Reload =>
                /\ store'.isAuthenticated = store.isAuthenticated
                /\ store'.user = store.user
                /\ store'.authState = initialAsyncState]_vars

\* A reload has kept a logged-in user and dropped the success of the login.
C14_Witness ==
    /\ api = "Auth"
    /\ hist.reloaded
    /\ hist.store.authState.success
    /\ hist.store.isAuthenticated
    /\ store.isAuthenticated
    /\ store.user = hist.store.user
    /\ store.user # Null
    /\ store.authState = initialAsyncState

\* C20: while logout is the last of login and logout to have been called, the
\* store is logged out: isAuthenticated is false and user is null.
C20_LogoutHolds ==
    (api = "Auth" /\ hist.loggedOut) => (~store.isAuthenticated /\ store.user = Null)

\* ------------------------------------------- what a caller of the API holds

\* A reference to an object: the object that is element i of the collection
\* of the database, or an object that only the caller holds.
Shared(i) == [shared |-> i, value |-> Null]

Own(v) == [shared |-> 0, value |-> v]

\* What a call resolves to: getAll spreads the collection into a new array
\* whose elements are the objects of the collection; getById, create and
\* update spread the record into a new object.
Handed(c, r) ==
    IF ~r.ok \/ c.op = "delete" THEN Null
    ELSE IF c.op = "getAll"
         THEN [array |-> TRUE, items |-> [i \in 1..Len(r.value) |-> Shared(i)]]
         ELSE [array |-> FALSE, items |-> <<Own(r.value)>>]

ApiCalls(a) ==
    {Call("getAll", NoArg, NoArg)}
        \cup {Call("getById", id, NoArg) : id \in IdArgs(a)}
        \cup {Call("create", NoArg, data) : data \in CreateArgs(a)}
        \cup {Call("update", id, u) : id \in IdArgs(a), u \in UpdateArgs(a)}
        \cup {Call("delete", id, NoArg) : id \in IdArgs(a)}

\* A call is made and awaited; the caller keeps what it resolved to.
Obtain ==
    /\ ncalls < MaxCalls
    /\ ncalls' = ncalls + 1
    /\ \E c \in ApiCalls(api) :
         \E r \in {Run(api, db, c)} :
            /\ db' = r.db
            /\ done' = Settled(c, getDatabase(api, db), r)
            /\ hist' = Handed(c, r)
    /\ UNCHANGED <<api, pending, created, freed, merged, atOnce, wasReset,
                   storeVars, page>>

\* Object.assign(held[k], data), or Object.assign(held, data) for a record
ChangeRecord ==
    /\ ncalls < MaxCalls
    /\ ncalls' = ncalls + 1
    /\ hist # Null
    /\ \E k \in 1..Len(hist.items), data \in UpdateArgs(api) :
         IF hist.items[k].shared = 0
         THEN /\ hist' = [hist EXCEPT !.items[k].value = Merge(@, data)]
              /\ db' = db
         ELSE /\ db' = [db EXCEPT !.records[hist.items[k].shared] = Merge(@, data)]
              /\ hist' = hist
    /\ UNCHANGED <<api, pending, done, created, freed, merged, atOnce, wasReset,
                   storeVars, page>>

\* held[k] = record, held.push(record), held.pop() on an array
ChangeArray ==
    /\ ncalls < MaxCalls
    /\ ncalls' = ncalls + 1
    /\ hist # Null
    /\ hist.array
    /\ \/ \E k \in 1..Len(hist.items) :
            hist' = [hist EXCEPT !.items[k] = Own(NewRecord(api))]
       \/ hist' = [hist EXCEPT !.items = Append(@, Own(NewRecord(api)))]
       \/ /\ Len(hist.items) > 0
          /\ hist' = [hist EXCEPT !.items = SubSeq(@, 1, Len(@) - 1)]
    /\ UNCHANGED <<api, db, pending, done, created, freed, merged, atOnce, wasReset,
                   storeVars, page>>

CallerNext ==
    \/ Obtain
    \/ ChangeRecord
    \/ ChangeArray

CallerSpec == Init /\ [][CallerNext]_vars

\* C15: changing an array or a record that getAll, getById, create or update
\* resolved to, an element of getAll's array included, leaves the database
\* as it is.
C15_ReturnsCopies ==
    [][(ChangeRecord \/ ChangeArray) => View' = View]_vars

\* --------------------------------------------------- resetState of a store

\* The second argument of createStoreResetFunctions in each store, the keys
\* of an object in the order they are written.
StateMap(a) ==
    CASE a = "Property" ->
            [asyncStates |-> <<"propertyListState", "propertyDetailState",
                               "propertyMutationState">>,
             properties |->
                << <<"currentProperty", Null>>, <<"properties", <<>>>>,
                   <<"filteredProperties", <<>>>>, <<"filters", defaultFilters>>,
                   <<"areas", defaultAreas>>, <<"titles", defaultTitles>>,
                   <<"activeFilterCount", 0>>,
                   <<"activeFilterCountExcludingAreas", 0>>,
                   <<"sortBy", "rent-price-asc">> >>]
      [] a = "Auth" ->
            [asyncStates |-> <<"authState">>,
             properties |-> << <<"isAuthenticated", FALSE>>, <<"user", Null>> >>]
      [] a = "Listing" ->
            [listingListState |-> initialAsyncState,
             listingDetailState |-> initialAsyncState,
             listingMutationState |-> initialAsyncState]

\* The object resetFunctions, its entries in the order they are added: one
\* for each key of stateMap.asyncStates and of stateMap.properties if the
\* map has them, then all, the batch over the object resetFunctions itself.
createStoreResetFunctions(stateMap) ==
    LET asyncStates ==
            IF Has(stateMap, "asyncStates")
            THEN [i \in 1..Len(stateMap.asyncStates) |->
                    [key |-> stateMap.asyncStates[i], kind |-> "async", value |-> Null]]
            ELSE <<>>
        properties ==
            IF Has(stateMap, "properties")
            THEN [i \in 1..Len(stateMap.properties) |->
                    [key |-> stateMap.properties[i][1], kind |-> "property",
                     value |-> stateMap.properties[i][2]]]
            ELSE <<>>
    IN  asyncStates \o properties \o <<[key |-> "all", kind |-> "batch", value |-> Null]>>

resetFunctions(a) == createStoreResetFunctions(StateMap(a))

\* store.resetState: the name of each entry and the key of resetFunctions it
\* is read from.
ResetEntries(a) ==
    CASE a = "Property" ->
            [propertyList |-> "propertyListState", propertyDetail |-> "propertyDetailState",
             propertyMutation |-> "propertyMutationState",
             currentProperty |-> "currentProperty", properties |-> "properties",
             filteredProperties |-> "filteredProperties", filters |-> "filters",
             areas |-> "areas", titles |-> "titles", all |-> "all"]
      [] a = "Auth" ->
            [auth |-> "authState", isAuthenticated |-> "isAuthenticated",
             user |-> "user", all |-> "all"]
      [] a = "Listing" ->
            [listingList |-> "listingListState", listingDetail |-> "listingDetailState",
             listingMutation |-> "listingMutationState", all |-> "all"]

\* resetFunctions[key]: the place of the entry, 0 standing for undefined
Lookup(fns, key) ==
    IF \E i \in 1..Len(fns) : fns[i].key = key
    THEN CHOOSE i \in 1..Len(fns) : fns[i].key = key
    ELSE 0

\* the function createPropertyResetFunction returns
createPropertyResetFunction(state, propertyKey, initialValue) ==
    set(state, One(propertyKey, initialValue))

\* A reset function of one slice is called.
ResetSlice(state, fn, preserve) ==
    IF fn.kind = "async" THEN createResetFunction(state, fn.key, preserve)
    ELSE createPropertyResetFunction(state, fn.key, fn.value)

\* The run of a call of a resetState entry: the calls of the batch function
\* on the stack, each with the place its forEach has come to, how often each
\* reset function has been invoked, and how the call ended.
NoRun(a) ==
    [entry |-> "", preserve |-> FALSE, stack |-> <<>>,
     count |-> [i \in 1..Len(resetFunctions(a)) |-> 0], outcome |-> "none"]

Running == page.outcome = "running"

\* resetState[entry](options) is called.  Calling undefined throws TypeError.
CallReset ==
    /\ ~Running
    /\ Step
    /\ \E entry \in DOMAIN ResetEntries(api), preserve \in BOOLEAN :
         LET fns == resetFunctions(api)
             i == Lookup(fns, ResetEntries(api)[entry])
             run == [NoRun(api) EXCEPT !.entry = entry, !.preserve = preserve]
         IN  IF i = 0
             THEN /\ page' = [run EXCEPT !.outcome = "TypeError"]
                  /\ store' = store
             ELSE IF fns[i].kind = "batch"
             THEN /\ page' = [run EXCEPT !.stack = <<1>>, !.count[i] = 1,
                                         !.outcome = "running"]
                  /\ store' = store
             ELSE /\ page' = [run EXCEPT !.count[i] = 1, !.outcome = "returned"]
                  /\ store' = ResetSlice(store, fns[i], preserve)
    /\ UNCHANGED <<api, db, pending, ret, hist, apiVars>>

\* One turn of Object.values(setters).forEach(resetFn => resetFn(options)) in
\* the call on top of the stack: the next function is called, or the forEach
\* is over and the call returns.  A call that the stack has no room for
\* throws RangeError, which nothing catches.
Batch ==
    /\ Running
    /\ LET fns == resetFunctions(api)
           depth == Len(page.stack)
           i == page.stack[depth]
       IN  IF i > Len(fns)
           THEN /\ page' = [page EXCEPT
                               !.stack = SubSeq(@, 1, depth - 1),
                               !.outcome = IF depth = 1 THEN "returned" ELSE @]
                /\ store' = store
           ELSE IF fns[i].kind # "batch"
           THEN /\ page' = [page EXCEPT !.stack[depth] = i + 1, !.count[i] = @ + 1]
                /\ store' = ResetSlice(store, fns[i], page.preserve)
           ELSE IF depth < MaxDepth
           THEN /\ page' = [page EXCEPT !.stack = Append([@ EXCEPT ![depth] = i + 1], 1),
                                        !.count[i] = @ + 1]
                /\ store' = store
           ELSE /\ page' = [page EXCEPT !.stack = <<>>, !.outcome = "RangeError"]
                /\ store' = store
    /\ UNCHANGED <<api, db, pending, ret, nsteps, hist, apiVars>>

\* The mount effect of the list pages: the list state is reset, then the
\* list is fetched; an exception in the effect ends it.
Mount ==
    /\ ~Running
    /\ api \in Apis
    /\ Step
    /\ LET fns == resetFunctions(api)
           entry == IF api = "Listing" THEN "listingList" ELSE "propertyList"
           i == Lookup(fns, ResetEntries(api)[entry])
           run == [NoRun(api) EXCEPT !.entry = entry]
       IN  IF i = 0
           THEN /\ page' = [run EXCEPT !.outcome = "TypeError"]
                /\ UNCHANGED <<store, pending>>
           ELSE /\ page' = [run EXCEPT !.count[i] = 1, !.outcome = "returned"]
                /\ store' = Called(api, ResetSlice(store, fns[i], FALSE), "getAll")
                /\ pending' = pending (+) SetToBag({Call("getAll", NoArg, NoArg)})
    /\ UNCHANGED <<api, db, ret, hist, apiVars>>

\* The actions of a store happen between the synchronous runs.
Act ==
    /\ ~Running
    /\ \/ Fetch
       \/ Create
       \/ Update
       \/ Delete
       \/ Login
       \/ Logout
       \/ SetSortOption
       \/ SetAreas
       \/ ApplyAreasFilter
       \/ Return

ResetInit ==
    /\ api \in Stores
    /\ Loaded
    /\ store = CreatedStore(api)
    /\ page = NoRun(api)
    /\ hist = Null

ResetNext ==
    \/ CallReset
    \/ Batch
    \/ Mount
    \/ Act

ResetSpec == ResetInit /\ [][ResetNext]_vars

\* C16: a call of resetState.all invokes each reset function of a slice once,
\* never more, and returns; it does not end in an exception.
C16_AllTerminates ==
    page.entry = "all" =>
        /\ page.outcome # "RangeError"
        /\ \A i \in 1..Len(resetFunctions(api)) :
                resetFunctions(api)[i].kind # "batch" =>
                    /\ page.count[i] <= 1
                    /\ page.outcome = "returned" => page.count[i] = 1

\* C18: every entry of resetState is a function: a call of an entry, the
\* mount effect's resetState.listingList() included, does not throw TypeError.
C18_EntriesCallable == page.outcome # "TypeError"

\* ------------------------------------------------ claims on the filter counts

FilterGroups ==
    {"types", "subtypes", "furnishing", "bedroomRange", "rentPriceRange", "salePriceRange"}

\* A group of the filter is active: a list that names a value, a range with a
\* bound.
Active(state, group) ==
    CASE group \in {"types", "subtypes", "furnishing"} -> state.filters[group] # <<>>
      [] group \in {"bedroomRange", "rentPriceRange", "salePriceRange"} ->
            state.filters[group].min # NullNumber \/ state.filters[group].max # NullNumber
      [] group = "areas" -> state.areas # <<>>
      [] group = "titles" -> state.titles # <<>>

ActiveGroups(state, groups) == Cardinality({group \in groups : Active(state, group)})

\* C19: after applyFilters, applyAreasFilter, clearFilter, clearFilters and
\* clearAreas, activeFilterCount is the number of active groups of the filter,
\* areas and titles included, and activeFilterCountExcludingAreas the number
\* without these two; so activeFilterCount is 0 only if no group is active.
C19_CountsFollowFilters ==
    [][(ApplyFilters \/ ApplyAreas \/ ClearFilter \/ ClearFilters \/ ClearAreas) =>
            /\ store'.activeFilterCount =
                    ActiveGroups(store', FilterGroups \cup {"areas", "titles"})
            /\ store'.activeFilterCountExcludingAreas =
                    ActiveGroups(store', FilterGroups)]_vars

\* ------------------------------------------- claims on the reset functions

\* C21: between the calls made on the auth store (login, logout, and the
\* entries auth, isAuthenticated, user and all of resetState), isAuthenticated
\* is true exactly when user is not null.
C21_SessionConsistent ==
    (api = "Auth" /\ ~Running) => (store.isAuthenticated <=> store.user # Null)

\* s is t with some of its elements left out.
RECURSIVE IsSubSequence(_, _)
IsSubSequence(s, t) ==
    IF s = <<>> THEN TRUE
    ELSE IF t = <<>> THEN FALSE
    ELSE IF Head(s) = Head(t) THEN IsSubSequence(Tail(s), Tail(t))
    ELSE IsSubSequence(s, Tail(t))

\* C22: between the calls made on the property store, resetState's entries
\* included, filteredProperties is a sub-sequence of properties: its records
\* are records of properties, in the order they have there.
C22_FilteredWithinProperties ==
    (api = "Property" /\ ~Running) =>
        IsSubSequence(store.filteredProperties, store.properties)

====
